---- MODULE Spec2Model ----
(***************************************************************************)
(* A model of src/frontend/public/app.js: the refresh cycle fetchNews (the *)
(* seven per-date fetches, the classification of the items, the markers,   *)
(* the two card panels) and the popup with its hide timer.                 *)
(*                                                                         *)
(* JavaScript values are modelled by what the code does with them:         *)
(*   - a string whose characters matter (a coordinate key, a coordinate    *)
(*     given as text) is a sequence of one-character strings;              *)
(*   - a number is a record [k, v]: k = "fin" (the integer v), "negzero"   *)
(*     (-0), "nan" or "inf";                                               *)
(*   - a JSON value read from a feed is a record [t, n, s] with its type   *)
(*     t, its number n or its text s.                                      *)
(***************************************************************************)
EXTENDS Integers, Sequences, FiniteSets, TLC

(***************************************************************************)
(* Bounds of the model.                                                    *)
(***************************************************************************)
\* items in the joined list the aggregation specification starts from
MaxItems == 2
\* items in each date's feed array in the fetch specifications
MaxDayItems == 1
\* timer ids the browser hands out before the model stops setting timers
MaxTimerId == 3
\* invocations of fetchNews
MaxCycles == 2

(***************************************************************************)
(* Program constants.                                                      *)
(***************************************************************************)
\* getLastSevenDates: for (let i = 0; i < 7; i += 1)
NumDates == 7

Dates == 1..NumDates
Cycles == 1..MaxCycles

(***************************************************************************)
(* JavaScript numbers.                                                     *)
(***************************************************************************)
Fin(v) == [k |-> "fin", v |-> v]
NegZero == [k |-> "negzero", v |-> 0]
NaN == [k |-> "nan", v |-> 0]
Infinity == [k |-> "inf", v |-> 0]

\* Number.isFinite
IsFinite(x) == x.k \in {"fin", "negzero"}

\* x === y on numbers: NaN equals nothing, -0 equals +0
StrictEq(x, y) ==
    /\ x.k # "nan"
    /\ y.k # "nan"
    /\ \/ x = y
       \/ IsFinite(x) /\ IsFinite(y) /\ x.v = 0 /\ y.v = 0

(***************************************************************************)
(* Strings as character sequences, and the two conversions the code uses   *)
(* on coordinates: Number(text) and `${number}`.                           *)
(***************************************************************************)
Digits == <<"0", "1", "2", "3", "4", "5", "6", "7", "8", "9">>

IsDigit(ch) == \E i \in 1..10 : Digits[i] = ch

DigitValue(ch) == (CHOOSE i \in 1..10 : Digits[i] = ch) - 1

RECURSIVE DigitsValue(_)
DigitsValue(s) ==
    IF Len(s) = 0 THEN 0
    ELSE 10 * DigitsValue(SubSeq(s, 1, Len(s) - 1)) + DigitValue(s[Len(s)])

AllDigits(s) == Len(s) > 0 /\ \A i \in 1..Len(s) : IsDigit(s[i])

\* Number(text) for the texts of the model: "" is 0, an optional sign and
\* decimal digits is that integer ("-0" is -0), "Infinity" is Infinity and
\* everything else is NaN.
StringToNumber(s) ==
    IF Len(s) = 0 THEN Fin(0)
    ELSE IF s = <<"I", "n", "f", "i", "n", "i", "t", "y">> THEN Infinity
    ELSE IF AllDigits(s) THEN Fin(DigitsValue(s))
    ELSE IF s[1] = "-" /\ AllDigits(Tail(s))
         THEN IF DigitsValue(Tail(s)) = 0 THEN NegZero
              ELSE Fin(0 - DigitsValue(Tail(s)))
    ELSE NaN

RECURSIVE NatToString(_)
NatToString(n) ==
    IF n < 10 THEN <<Digits[n + 1]>>
    ELSE NatToString(n \div 10) \o <<Digits[(n % 10) + 1]>>

\* Number::toString, as the template literal applies it: -0 prints as "0"
NumberToString(x) ==
    CASE x.k = "nan" -> <<"N", "a", "N">>
      [] x.k = "inf" -> <<"I", "n", "f", "i", "n", "i", "t", "y">>
      [] x.k = "negzero" -> <<"0">>
      [] x.k = "fin" -> IF x.v < 0 THEN <<"-">> \o NatToString(0 - x.v)
                        ELSE NatToString(x.v)

\* text.split(sep) for a one-character separator
RECURSIVE Split(_, _)
Split(s, sep) ==
    IF \A i \in 1..Len(s) : s[i] # sep THEN <<s>>
    ELSE LET p == CHOOSE i \in 1..Len(s) :
                      s[i] = sep /\ \A j \in 1..(i - 1) : s[j] # sep
         IN <<SubSeq(s, 1, p - 1)>> \o Split(SubSeq(s, p + 1, Len(s)), sep)

(***************************************************************************)
(* JSON values of a feed.                                                  *)
(***************************************************************************)
JNum(n) == [t |-> "num", n |-> n, s |-> <<>>]
JNegZero == [t |-> "negzero", n |-> 0, s |-> <<>>]
\* a number literal beyond the double range, which JSON.parse reads as Infinity
JHuge == [t |-> "huge", n |-> 0, s |-> <<>>]
JStr(s) == [t |-> "str", n |-> 0, s |-> s]
JNull == [t |-> "null", n |-> 0, s |-> <<>>]
\* a field the object does not have
JUndefined == [t |-> "undefined", n |-> 0, s |-> <<>>]

\* Number(value)
ToNumber(j) ==
    CASE j.t = "num" -> Fin(j.n)
      [] j.t = "negzero" -> NegZero
      [] j.t = "huge" -> Infinity
      [] j.t = "str" -> StringToNumber(j.s)
      [] j.t = "null" -> Fin(0)
      [] j.t = "undefined" -> NaN

\* a value in a condition: `x || y`, `if (!x)`
Falsy(j) ==
    \/ j.t \in {"undefined", "null", "negzero"}
    \/ j.t = "num" /\ j.n = 0
    \/ j.t = "str" /\ j.s = <<>>

(***************************************************************************)
(* News items.  An element of a feed array is a JSON object or the JSON    *)
(* value null; id tells the objects apart (two elements with the same      *)
(* fields are still two items).  status is the text of the field, or       *)
(* Undefined when the item has none.                                       *)
(***************************************************************************)
Undefined == "<undefined>"

Coord(lat, lon) == [t |-> "object", latitude |-> lat, longitude |-> lon]
NoCoordinate == [t |-> "undefined", latitude |-> JUndefined, longitude |-> JUndefined]

\* a date text that Date parses, to the instant n
JDate(n) == [t |-> "date", n |-> n, s |-> <<>>]
\* a date text that Date does not parse
JBadDate == JStr(<<"?">>)

Links(elems) == [isArray |-> TRUE, elems |-> elems]
NoLinks == [isArray |-> FALSE, elems |-> <<>>]

Item(id, status, coordinate, date, links) ==
    [id |-> id, json |-> "object", status |-> status,
     coordinate |-> coordinate, date |-> date, links |-> links]

\* the array element null
NullItem(id) ==
    [id |-> id, json |-> "null", status |-> Undefined,
     coordinate |-> NoCoordinate, date |-> JUndefined, links |-> NoLinks]

\* new Date(value).getTime()
TimeValue(j) ==
    CASE j.t = "date" -> Fin(j.n)
      [] j.t = "num" -> Fin(j.n)
      [] j.t = "null" -> Fin(0)
      [] OTHER -> NaN

\* value || 0
OrZero(j) == IF Falsy(j) THEN JNum(0) ELSE j

\* x - y on numbers whose finite values are instants
Minus(x, y) ==
    IF x.k = "nan" \/ y.k = "nan" THEN NaN
    ELSE Fin(x.v - y.v)

(***************************************************************************)
(* isValidCoordinate                                                       *)
(***************************************************************************)
isValidCoordinate(coord) ==
    IF coord.t # "object" THEN FALSE
    ELSE LET lat == ToNumber(coord.latitude)
             lon == ToNumber(coord.longitude)
         IN IF ~IsFinite(lat) \/ ~IsFinite(lon) THEN FALSE
            ELSE IF StrictEq(lat, Fin(-1)) /\ StrictEq(lon, Fin(-1)) THEN FALSE
            ELSE TRUE

\* const key = `${lat},${lon}`
CoordinateKey(coord) ==
    NumberToString(ToNumber(coord.latitude)) \o <<",">>
        \o NumberToString(ToNumber(coord.longitude))

\* the slip `const [lon, lat] = ...`
KeyLatLonSwapped(key) ==
    LET parts == Split(key, ",")
    IN [latitude |-> IF Len(parts) >= 2 THEN StringToNumber(parts[2]) ELSE NaN,
        longitude |-> StringToNumber(parts[1])]

\* const [lat, lon] = key.split(',').map(Number)
KeyLatLon(key) ==
    LET parts == Split(key, ",")
    IN [latitude |-> StringToNumber(parts[1]),
        longitude |-> IF Len(parts) >= 2 THEN StringToNumber(parts[2]) ELSE NaN]

(***************************************************************************)
(* Array.prototype.sort with a comparator.  The sort is stable; when the   *)
(* comparator is not consistent on the elements (it returns NaN, read as   *)
(* 0, for an unparsable date, which makes "equal" non-transitive) the      *)
(* order is implementation-defined: every arrangement is an outcome.       *)
(***************************************************************************)
\* the comparator's result as sort reads it: -1, 0 or 1 (NaN reads as 0)
Sign(x) == IF x.k # "fin" THEN 0 ELSE IF x.v < 0 THEN -1 ELSE IF x.v > 0 THEN 1 ELSE 0

\* (a, b) => new Date(b.date || 0) - new Date(a.date || 0)
ComparePopup(a, b) ==
    Sign(Minus(TimeValue(OrZero(b.date)), TimeValue(OrZero(a.date))))

\* (a, b) => new Date(b.date) - new Date(a.date)
CompareAll(a, b) ==
    Sign(Minus(TimeValue(b.date), TimeValue(a.date)))

\* the comparator of the sort named by which: "popup" (buildPopupHtml) or
\* "all" (the list of every item)
Compare(which, a, b) ==
    IF which = "popup" THEN ComparePopup(a, b) ELSE CompareAll(a, b)

Consistent(seq, which) ==
    \A i, j, k \in 1..Len(seq) :
        /\ (Compare(which, seq[i], seq[j]) = 0 /\ Compare(which, seq[j], seq[k]) = 0)
               => Compare(which, seq[i], seq[k]) = 0
        /\ (Compare(which, seq[i], seq[j]) < 0 /\ Compare(which, seq[j], seq[k]) < 0)
               => Compare(which, seq[i], seq[k]) < 0
        /\ (Compare(which, seq[i], seq[j]) < 0) <=> (Compare(which, seq[j], seq[i]) > 0)

\* x put into the sorted sequence seq after every element it does not precede
RECURSIVE InsertSorted(_, _, _)
InsertSorted(seq, x, which) ==
    IF Len(seq) = 0 THEN <<x>>
    ELSE IF Compare(which, x, seq[Len(seq)]) < 0
         THEN Append(InsertSorted(SubSeq(seq, 1, Len(seq) - 1), x, which), seq[Len(seq)])
         ELSE Append(seq, x)

RECURSIVE StableSort(_, _)
StableSort(seq, which) ==
    IF Len(seq) = 0 THEN <<>>
    ELSE InsertSorted(StableSort(SubSeq(seq, 1, Len(seq) - 1), which), seq[Len(seq)], which)

Arrangements(seq) ==
    {[i \in 1..Len(seq) |-> seq[p[i]]] :
        p \in {q \in [1..Len(seq) -> 1..Len(seq)] :
                  \A i, j \in 1..Len(seq) : i # j => q[i] # q[j]}}

SortOutcomes(seq, which) ==
    IF Consistent(seq, which) THEN {StableSort(seq, which)} ELSE Arrangements(seq)

(***************************************************************************)
(* Rendering.  The markup of a card or a popup is modelled by the ids of   *)
(* the items it shows, in order; building it throws a TypeError when a     *)
(* links array holds null (item.source of null).                           *)
(***************************************************************************)
buildLinksHtml(links) ==
    IF ~links.isArray \/ Len(links.elems) = 0
    THEN [threw |-> FALSE, html |-> <<>>]
    ELSE [threw |-> \E i \in 1..Len(links.elems) : links.elems[i] = "null",
          html |-> links.elems]

createNewsCard(item) ==
    [threw |-> buildLinksHtml(item.links).threw,
     card |-> [cls |-> "news-item", item |-> item.id]]

EmptyMsg == [cls |-> "empty-msg", item |-> 0]

\* sorted is the outcome of [...itemsAtPoint].sort(...)
buildPopupHtml(sorted) ==
    [threw |-> \E i \in 1..Len(sorted) : buildLinksHtml(sorted[i].links).threw,
     html |-> [i \in 1..Len(sorted) |-> sorted[i].id]]

(***************************************************************************)
(* A Map, as the sequence of its entries in insertion order.               *)
(***************************************************************************)
MapHas(m, key) == \E i \in 1..Len(m) : m[i].key = key

MapSet(m, entry) ==
    IF MapHas(m, entry.key)
    THEN [i \in 1..Len(m) |-> IF m[i].key = entry.key THEN entry ELSE m[i]]
    ELSE Append(m, entry)

MapGet(m, key) == m[CHOOSE i \in 1..Len(m) : m[i].key = key]

(***************************************************************************)
(* fetchNews, the classification loop: allItems.forEach((item) => ...)     *)
(***************************************************************************)
\* a final `else` that keeps the items of any other status in the list
RouteUnknownToOther(item) ==
    IF item.json = "null" THEN "throw"
    ELSE LET status == IF item.status \in {Undefined, ""} THEN "unknown"
                       ELSE item.status
         IN IF status = "coordinate_fetched" /\ isValidCoordinate(item.coordinate)
            THEN "group" ELSE "other"

\* the bucket an item is put in: "other", "group" or "none"; "throw" for the
\* element null (item.status of null)
Route(item) ==
    IF item.json = "null" THEN "throw"
    ELSE LET status == IF item.status \in {Undefined, ""} THEN "unknown"
                       ELSE item.status
         IN IF status = "no_valid_coordinate" THEN "other"
            ELSE IF status = "coordinate_fetched"
                 THEN IF isValidCoordinate(item.coordinate) THEN "group" ELSE "other"
            ELSE "none"

\* the slip of setting the bucket anew for every item
GroupPushOverwrite(grouped, key, item) ==
    MapSet(grouped, [key |-> key, items |-> <<item>>])

\* if (!has(key)) set(key, []); get(key).push(item)
GroupPush(grouped, key, item) ==
    IF MapHas(grouped, key)
    THEN MapSet(grouped, [key |-> key, items |-> Append(MapGet(grouped, key).items, item)])
    ELSE MapSet(grouped, [key |-> key, items |-> <<item>>])

RECURSIVE Classify(_, _, _)
Classify(items, i, acc) ==
    IF i > Len(items) \/ acc.threw THEN acc
    ELSE LET item == items[i]
             route == Route(item)
         IN Classify(items, i + 1,
                CASE route = "throw" -> [acc EXCEPT !.threw = TRUE]
                  [] route = "other" ->
                        [acc EXCEPT !.noCoordinateItems = Append(@, item)]
                  [] route = "group" ->
                        [acc EXCEPT !.groupedByCoordinate =
                            GroupPush(@, CoordinateKey(item.coordinate), item)]
                  [] OTHER -> acc)

(***************************************************************************)
(* fetchNews: groupedByCoordinate.forEach((itemsAtPoint, key) => ...)      *)
(* sorts[i] is the outcome of the sort of the i-th group's items.          *)
(***************************************************************************)
RECURSIVE BuildMarkers(_, _, _, _)
BuildMarkers(grouped, sorts, i, acc) ==
    IF i > Len(grouped) \/ acc.threw THEN acc
    ELSE LET at == KeyLatLon(grouped[i].key)
             popup == buildPopupHtml(sorts[i])
         IN IF popup.threw THEN [acc EXCEPT !.threw = TRUE]
            ELSE BuildMarkers(grouped, sorts, i + 1,
                    [threw |-> FALSE,
                     vectorSource |-> Append(acc.vectorSource,
                        [popupHtml |-> popup.html,
                         latitude |-> at.latitude, longitude |-> at.longitude]),
                     markerMap |-> MapSet(acc.markerMap,
                        [key |-> grouped[i].key, popupHtml |-> popup.html,
                         latitude |-> at.latitude, longitude |-> at.longitude])])

\* the outcomes of the sorts of all groups
RECURSIVE PopupSorts(_, _)
PopupSorts(grouped, n) ==
    IF n = 0 THEN {<<>>}
    ELSE {Append(front, last) :
            front \in PopupSorts(grouped, n - 1),
            last \in SortOutcomes(grouped[n].items, "popup")}

\* items.forEach((item) => panel.appendChild(createNewsCard(item, focusOnMarker)))
RECURSIVE AppendCards(_, _, _)
AppendCards(items, i, acc) ==
    IF i > Len(items) \/ acc.threw THEN acc
    ELSE LET made == createNewsCard(items[i])
         IN IF made.threw THEN [acc EXCEPT !.threw = TRUE]
            ELSE AppendCards(items, i + 1,
                    [threw |-> FALSE, panel |-> Append(acc.panel, made.card)])

\* Array.from(groupedByCoordinate.values()).flat()
RECURSIVE Flat(_, _)
Flat(grouped, n) ==
    IF n = 0 THEN <<>> ELSE Flat(grouped, n - 1) \o grouped[n].items

(***************************************************************************)
(* State.                                                                  *)
(*   feed[d]     the resource of date d: whether it exists, and the array  *)
(*               it holds (read when its body parses to an array)          *)
(*   pc[c]       where invocation c of fetchNews is: "idle" (not called),  *)
(*               "awaiting" (in await Promise.all), "done" (returned),     *)
(*               "threw" (ended by an uncaught error)                      *)
(*   task[c][d]  the async callback of date d: "fetch" (in await fetch),   *)
(*               "json" (in await response.json()), "ok" (fulfilled, its   *)
(*               items pushed), "failed" (fulfilled, nothing pushed),      *)
(*               "rejected"                                                *)
(*   allItems, noCoordinateItems, groupedByCoordinate, allFilteredItems    *)
(*               the locals of invocation c, kept after it ends; an array  *)
(*               holds references to the item objects, which are the ids   *)
(*   finished    the invocations that ended, in the order they ended       *)
(*   overlapped  an invocation started while another was in its await      *)
(*   vectorSource, markerMap, tabOther, tabAll                             *)
(*               the features of the map layer, the marker table and the   *)
(*               children of the two panels after their header             *)
(*   popupHideTimer (0 is null), timers (the timeouts pending in the       *)
(*               browser), nextTimerId, popupDisplay (style.display),      *)
(*               popupVisible (class is-visible), popupAriaHidden,         *)
(*               popupInnerHtml, popupPosition (<<>> is undefined),        *)
(*               rafPending (an animation frame callback is queued),       *)
(*               lastPopupOp (the last of closePopup and openPopup called) *)
(***************************************************************************)
VARIABLES feed, pc, task, allItems, noCoordinateItems, groupedByCoordinate,
          allFilteredItems, finished, overlapped, vectorSource, markerMap,
          tabOther, tabAll,
          popupHideTimer, timers, nextTimerId, popupDisplay, popupVisible,
          popupAriaHidden, popupInnerHtml, popupPosition, rafPending, lastPopupOp

cycleVars == <<pc, task, allItems, noCoordinateItems, groupedByCoordinate,
               allFilteredItems, finished, overlapped>>
displayVars == <<vectorSource, markerMap, tabOther, tabAll>>
popupVars == <<popupHideTimer, timers, nextTimerId, popupDisplay, popupVisible,
               popupAriaHidden, popupInnerHtml, popupPosition, rafPending,
               lastPopupOp>>
vars == <<feed, cycleVars, displayVars, popupVars>>

Settled == {"ok", "failed"}

\* the references to the objects of an array, and the objects referred to
ItemIds(seq) == [i \in 1..Len(seq) |-> seq[i].id]

ItemOf(id) ==
    CHOOSE a \in UNION {{feed[d].items[i] : i \in 1..Len(feed[d].items)} : d \in Dates} :
        a.id = id

Deref(ids) == [i \in 1..Len(ids) |-> ItemOf(ids[i])]

GroupIds(grouped) ==
    [g \in 1..Len(grouped) |->
        [key |-> grouped[g].key, items |-> ItemIds(grouped[g].items)]]

\* Promise.all has an outcome: every callback fulfilled, or one rejected.  Its
\* continuation is a microtask, which runs before any other event is handled.
JoinReady(c) ==
    /\ pc[c] = "awaiting"
    /\ \/ \A d \in Dates : task[c][d] \in Settled
       \/ \E d \in Dates : task[c][d] = "rejected"

NoMicrotask == \A c \in Cycles : ~JoinReady(c)

(***************************************************************************)
(* closePopup and openPopup                                                *)
(***************************************************************************)
\* if (popupHideTimer) { clearTimeout(popupHideTimer); popupHideTimer = null; }
closePopupCleared == IF popupHideTimer # 0 THEN timers \ {popupHideTimer} ELSE timers

\* openPopup without its clearTimeout
openPopupKept == timers

openPopupCleared == IF popupHideTimer # 0 THEN timers \ {popupHideTimer} ELSE timers

closePopup ==
    /\ nextTimerId <= MaxTimerId
    /\ popupVisible' = FALSE
    /\ popupAriaHidden' = "true"
    /\ timers' = closePopupCleared \cup {nextTimerId}
    /\ popupHideTimer' = nextTimerId
    /\ nextTimerId' = nextTimerId + 1
    /\ lastPopupOp' = "close"
    /\ UNCHANGED <<popupDisplay, popupInnerHtml, popupPosition, rafPending>>

openPopup(html, lon, lat) ==
    /\ timers' = openPopupCleared
    /\ popupHideTimer' = 0
    /\ popupInnerHtml' = html
    /\ popupPosition' = <<lon, lat>>
    /\ popupDisplay' = "block"
    /\ popupAriaHidden' = "false"
    /\ rafPending' = TRUE
    /\ lastPopupOp' = "open"
    /\ UNCHANGED <<nextTimerId, popupVisible>>

\* the callback of the timeout closePopup set
HideTimerFire ==
    /\ NoMicrotask
    /\ \E id \in timers :
        /\ timers' = timers \ {id}
        /\ popupPosition' = <<>>
        /\ popupDisplay' = "none"
        /\ popupHideTimer' = 0
    /\ UNCHANGED <<nextTimerId, popupVisible, popupAriaHidden, popupInnerHtml,
                   rafPending, lastPopupOp>>
    /\ UNCHANGED <<feed, cycleVars, displayVars>>

\* the callbacks openPopup gave requestAnimationFrame
AnimationFrame ==
    /\ NoMicrotask
    /\ rafPending
    /\ rafPending' = FALSE
    /\ popupVisible' = TRUE
    /\ UNCHANGED <<popupHideTimer, timers, nextTimerId, popupDisplay,
                   popupAriaHidden, popupInnerHtml, popupPosition, lastPopupOp>>
    /\ UNCHANGED <<feed, cycleVars, displayVars>>

\* closePopup as the map's click handler calls it (no feature at the pixel)
ClosePopup ==
    /\ NoMicrotask
    /\ closePopup
    /\ UNCHANGED <<feed, cycleVars, displayVars>>

\* openPopup as the click handlers call it, with a marker's popup and place
PopupHtmls == {<<1>>, <<2, 1>>}
PopupPlaces == {Fin(40), Fin(-74)}

OpenPopup ==
    /\ NoMicrotask
    /\ \E html \in PopupHtmls, lon \in PopupPlaces, lat \in PopupPlaces :
           openPopup(html, lon, lat)
    /\ UNCHANGED <<feed, cycleVars, displayVars>>

(***************************************************************************)
(* fetchNews                                                               *)
(***************************************************************************)
\* lines 340-346: the headers are rendered anew (which empties the panels),
\* the map layer and the marker table are cleared, the popup is closed, and
\* the seven callbacks start, each up to its await fetch(url)
StartFetchNews(c) ==
    /\ NoMicrotask
    /\ pc[c] = "idle"
    /\ \A b \in Cycles : b < c => pc[b] # "idle"
    /\ tabOther' = <<>>
    /\ tabAll' = <<>>
    /\ vectorSource' = <<>>
    /\ markerMap' = <<>>
    /\ closePopup
    /\ pc' = [pc EXCEPT ![c] = "awaiting"]
    /\ task' = [task EXCEPT ![c] = [d \in Dates |-> "fetch"]]
    /\ allItems' = [allItems EXCEPT ![c] = <<>>]
    /\ overlapped' = (overlapped \/ \E b \in Cycles : pc[b] = "awaiting")
    /\ UNCHANGED <<feed, noCoordinateItems, groupedByCoordinate, allFilteredItems,
                   finished>>

\* catch (error) { console.error(...) }: the callback ends normally
TaskAfterErrorRethrown == "rejected"

TaskAfterError == "failed"

TaskStep(c, d, from, to) ==
    /\ NoMicrotask
    /\ pc[c] = "awaiting"
    /\ task[c][d] = from
    /\ task' = [task EXCEPT ![c][d] = to]

TaskOnly == <<feed, pc, noCoordinateItems, groupedByCoordinate, allFilteredItems,
              finished, overlapped, displayVars, popupVars>>

\* fetch(url) rejects: the resource is unreachable
FetchReject(c, d) ==
    /\ TaskStep(c, d, "fetch", TaskAfterError)
    /\ UNCHANGED <<allItems, TaskOnly>>

\* if (!response.ok) return;
FetchNotOk(c, d) ==
    /\ TaskStep(c, d, "fetch", "failed")
    /\ UNCHANGED <<allItems, TaskOnly>>

\* response.ok (the resource exists): on to await response.json()
FetchOk(c, d) ==
    /\ feed[d].exists
    /\ TaskStep(c, d, "fetch", "json")
    /\ UNCHANGED <<allItems, TaskOnly>>

\* response.json() rejects: the body is not JSON
JsonReject(c, d) ==
    /\ TaskStep(c, d, "json", TaskAfterError)
    /\ UNCHANGED <<allItems, TaskOnly>>

\* the body is JSON but no array: Array.isArray(dayItems) is false
JsonNotArray(c, d) ==
    /\ TaskStep(c, d, "json", "failed")
    /\ UNCHANGED <<allItems, TaskOnly>>

\* allItems.push(...dayItems)
JsonArray(c, d) ==
    /\ TaskStep(c, d, "json", "ok")
    /\ allItems' = [allItems EXCEPT ![c] = @ \o ItemIds(feed[d].items)]
    /\ UNCHANGED TaskOnly

\* lines 362-429, which run without a pause once Promise.all has its outcome.
\* An error leaves what was written before it.
Aggregate(c) ==
    /\ JoinReady(c)
    /\ finished' = Append(finished, c)
    /\ IF \E d \in Dates : task[c][d] = "rejected"
       THEN /\ pc' = [pc EXCEPT ![c] = "threw"]
            /\ UNCHANGED <<noCoordinateItems, groupedByCoordinate, allFilteredItems,
                           displayVars>>
       ELSE \E cls \in {Classify(Deref(allItems[c]), 1,
                            [threw |-> FALSE, noCoordinateItems |-> <<>>,
                             groupedByCoordinate |-> <<>>])} :
            \E sorts \in PopupSorts(cls.groupedByCoordinate,
                                    Len(cls.groupedByCoordinate)),
               sortedAll \in SortOutcomes(
                    cls.noCoordinateItems
                        \o Flat(cls.groupedByCoordinate, Len(cls.groupedByCoordinate)),
                    "all") :
            \E mk \in {BuildMarkers(cls.groupedByCoordinate, sorts, 1,
                          [threw |-> cls.threw, vectorSource |-> vectorSource,
                           markerMap |-> markerMap])} :
            \E other \in {AppendCards(cls.noCoordinateItems, 1,
                          [threw |-> mk.threw, panel |-> tabOther])} :
            \E all \in {AppendCards(sortedAll, 1,
                          [threw |-> other.threw, panel |-> tabAll])} :
                /\ pc' = [pc EXCEPT ![c] = IF all.threw THEN "threw" ELSE "done"]
                /\ noCoordinateItems' =
                        [noCoordinateItems EXCEPT ![c] = ItemIds(cls.noCoordinateItems)]
                /\ groupedByCoordinate' =
                        [groupedByCoordinate EXCEPT ![c] =
                            GroupIds(cls.groupedByCoordinate)]
                /\ allFilteredItems' = [allFilteredItems EXCEPT ![c] =
                        IF other.threw THEN <<>> ELSE ItemIds(sortedAll)]
                /\ vectorSource' = mk.vectorSource
                /\ markerMap' = mk.markerMap
                /\ tabOther' = IF ~other.threw /\ Len(cls.noCoordinateItems) = 0
                               THEN Append(other.panel, EmptyMsg) ELSE other.panel
                /\ tabAll' = IF ~all.threw /\ Len(sortedAll) = 0
                             THEN Append(all.panel, EmptyMsg) ELSE all.panel
    /\ UNCHANGED <<feed, task, allItems, overlapped, popupVars>>

(***************************************************************************)
(* The state after the script has run, before the first fetchNews.         *)
(***************************************************************************)
Constructed ==
    /\ pc = [c \in Cycles |-> "idle"]
    /\ task = [c \in Cycles |-> [d \in Dates |-> "idle"]]
    /\ allItems = [c \in Cycles |-> <<>>]
    /\ noCoordinateItems = [c \in Cycles |-> <<>>]
    /\ groupedByCoordinate = [c \in Cycles |-> <<>>]
    /\ allFilteredItems = [c \in Cycles |-> <<>>]
    /\ finished = <<>>
    /\ overlapped = FALSE
    /\ vectorSource = <<>>
    /\ markerMap = <<>>
    /\ tabOther = <<>>
    /\ tabAll = <<>>
    /\ popupHideTimer = 0
    /\ timers = {}
    /\ nextTimerId = 1
    /\ popupDisplay = ""
    /\ popupVisible = FALSE
    /\ popupAriaHidden = ""
    /\ popupInnerHtml = <<>>
    /\ popupPosition = <<>>
    /\ rafPending = FALSE
    /\ lastPopupOp = "none"

(***************************************************************************)
(* Spec: one refresh cycle.  Six dates hold MaxDayItems items each and the *)
(* file of the oldest date is missing; each fetch may fail in each way,    *)
(* and the fetches complete in any order.                                  *)
(***************************************************************************)
Text40 == <<"4", "0">>
TextMinus74 == <<"-", "7", "4">>

DayStatus(d) == IF d = 3 THEN "no_valid_coordinate" ELSE "coordinate_fetched"

\* dates 1 and 2 give one place as numbers and as text, dates 4 and 5 give
\* (0, -0) and (null, 0), date 6 gives the pair (-1, -1)
DayCoordinate(d) ==
    CASE d = 1 -> Coord(JNum(40), JNum(-74))
      [] d = 2 -> Coord(JStr(Text40), JStr(TextMinus74))
      [] d = 3 -> NoCoordinate
      [] d = 4 -> Coord(JNum(0), JNegZero)
      [] d = 5 -> Coord(JNull, JNum(0))
      [] OTHER -> Coord(JNum(-1), JNum(-1))

DayItems(d) ==
    IF d = NumDates THEN <<>>
    ELSE [i \in 1..MaxDayItems |->
            Item((d - 1) * MaxDayItems + i, DayStatus(d), DayCoordinate(d),
                 JDate(NumDates + 1 - d), Links(<<"object">>))]

Init ==
    /\ feed = [d \in Dates |-> [exists |-> d # NumDates, items |-> DayItems(d)]]
    /\ Constructed

Next ==
    \/ StartFetchNews(1)
    \/ \E d \in Dates :
        \/ FetchReject(1, d)
        \/ FetchNotOk(1, d)
        \/ FetchOk(1, d)
        \/ JsonReject(1, d)
        \/ JsonNotArray(1, d)
        \/ JsonArray(1, d)
    \/ Aggregate(1)
    \/ HideTimerFire

Spec == Init /\ [][Next]_vars

(***************************************************************************)
(* SpecAgg: the part of fetchNews after the join, from every joined list   *)
(* of up to MaxItems items.  Its initial states are those of a cycle whose *)
(* first date delivered the list and whose other dates failed.             *)
(***************************************************************************)
AggCoordinates ==
    {NoCoordinate,
     Coord(JNum(-1), JNum(-1)),
     Coord(JNum(40), JNum(-74)),
     Coord(JStr(Text40), JStr(TextMinus74)),
     Coord(JStr(<<"x">>), JNum(-74)),
     Coord(JNull, JNegZero),
     Coord(JNum(0), JNum(0))}

AggDates == {JUndefined, JBadDate, JDate(1), JDate(2)}

AggStatusCoordinates ==
    ({"coordinate_fetched"} \X AggCoordinates)
        \cup ({"no_valid_coordinate", "unknown"}
                 \X {NoCoordinate, Coord(JNum(40), JNum(-74))})
        \cup {<<Undefined, Coord(JNum(40), JNum(-74))>>}

\* the items of the lists, before they get their ids
AggItems ==
    {Item(0, sc[1], sc[2], date, Links(<<"object">>)) :
        sc \in AggStatusCoordinates, date \in AggDates}
    \cup {NullItem(0),
          Item(0, "coordinate_fetched", Coord(JNum(40), JNum(-74)), JDate(1),
               Links(<<"null">>)),
          Item(0, "no_valid_coordinate", NoCoordinate, JDate(1),
               Links(<<"object", "null">>))}

\* the elements of an array get their ids, which are their places
WithIds(list) == [i \in 1..Len(list) |-> [list[i] EXCEPT !.id = i]]

InitAgg ==
    \E n \in 0..MaxItems : \E items \in [1..n -> AggItems] :
    \E list \in {WithIds(items)} :
        /\ feed = [d \in Dates |->
                      [exists |-> d = 1, items |-> IF d = 1 THEN list ELSE <<>>]]
        /\ pc = [c \in Cycles |-> IF c = 1 THEN "awaiting" ELSE "idle"]
        /\ task = [c \in Cycles |-> [d \in Dates |->
                      IF c # 1 THEN "idle" ELSE IF d = 1 THEN "ok" ELSE "failed"]]
        /\ allItems = [c \in Cycles |-> IF c = 1 THEN ItemIds(list) ELSE <<>>]
        /\ noCoordinateItems = [c \in Cycles |-> <<>>]
        /\ groupedByCoordinate = [c \in Cycles |-> <<>>]
        /\ allFilteredItems = [c \in Cycles |-> <<>>]
        /\ finished = <<>>
        /\ overlapped = FALSE
        /\ vectorSource = <<>>
        /\ markerMap = <<>>
        /\ tabOther = <<>>
        /\ tabAll = <<>>
        /\ popupHideTimer = 1
        /\ timers = {1}
        /\ nextTimerId = 2
        /\ popupDisplay = ""
        /\ popupVisible = FALSE
        /\ popupAriaHidden = "true"
        /\ popupInnerHtml = <<>>
        /\ popupPosition = <<>>
        /\ rafPending = FALSE
        /\ lastPopupOp = "close"

NextAgg == Aggregate(1)

SpecAgg == InitAgg /\ [][NextAgg]_vars

(***************************************************************************)
(* SpecPopup: the popup and its hide timer under any sequence of           *)
(* closePopup, openPopup, timer expiry and animation frame.                *)
(***************************************************************************)
NextPopup ==
    \/ ClosePopup
    \/ OpenPopup
    \/ HideTimerFire
    \/ AnimationFrame

SpecPopup == Init /\ [][NextPopup]_vars

(***************************************************************************)
(* SpecOverlap: fetchNews called again while an earlier call is in await   *)
(* Promise.all.  Only the two most recent resources exist, and within each *)
(* call the responses arrive in the order of the requests; every behaviour *)
(* of this specification is a behaviour of the program.                    *)
(***************************************************************************)
InitOverlap ==
    /\ feed = [d \in Dates |-> [exists |-> d <= 2,
                                items |-> IF d <= 2 THEN DayItems(d) ELSE <<>>]]
    /\ Constructed

InOrder(c, d) == \A e \in Dates : e < d => task[c][e] \in Settled

NextOverlap ==
    \/ \E c \in Cycles : StartFetchNews(c)
    \/ \E c \in Cycles, d \in Dates : InOrder(c, d) /\ FetchReject(c, d)
    \/ \E c \in Cycles, d \in Dates : InOrder(c, d) /\ FetchNotOk(c, d)
    \/ \E c \in Cycles, d \in Dates : InOrder(c, d) /\ FetchOk(c, d)
    \/ \E c \in Cycles, d \in Dates : InOrder(c, d) /\ JsonReject(c, d)
    \/ \E c \in Cycles, d \in Dates : InOrder(c, d) /\ JsonNotArray(c, d)
    \/ \E c \in Cycles, d \in Dates : InOrder(c, d) /\ JsonArray(c, d)
    \/ \E c \in Cycles : Aggregate(c)
    \/ HideTimerFire

SpecOverlap == InitOverlap /\ [][NextOverlap]_vars

(***************************************************************************)
(* Properties.                                                             *)
(***************************************************************************)
Ids(seq) == {seq[i] : i \in 1..Len(seq)}

Count(seq, id) == Cardinality({i \in 1..Len(seq) : seq[i] = id})

Members(c) == Flat(groupedByCoordinate[c], Len(groupedByCoordinate[c]))

\* the fetched items of invocation c that are objects
Objects(c) == {a \in {ItemOf(id) : id \in Ids(allItems[c])} : a.json = "object"}

Ended(c) == pc[c] \in {"done", "threw"}

ItemLat(a) == ToNumber(a.coordinate.latitude)
ItemLon(a) == ToNumber(a.coordinate.longitude)

\* a valid coordinate, in the words of the specification: present, both
\* numbers finite, not the pair (-1, -1)
ValidPlace(a) ==
    /\ a.coordinate.t = "object"
    /\ ItemLat(a).k \in {"fin", "negzero"}
    /\ ItemLon(a).k \in {"fin", "negzero"}
    /\ ~(ItemLat(a) = Fin(-1) /\ ItemLon(a) = Fin(-1))

SamePlace(a, b) == StrictEq(ItemLat(a), ItemLat(b)) /\ StrictEq(ItemLon(a), ItemLon(b))

\* the groups of invocation c that hold the item
GroupsOf(c, a) ==
    {g \in 1..Len(groupedByCoordinate[c]) :
        a.id \in Ids(groupedByCoordinate[c][g].items)}

Cards(panel) == [i \in 1..Len(panel) |-> panel[i].item]

IsNewsCard(e) == e.cls = "news-item"

NewsCards(panel) == SelectSeq(panel, IsNewsCard)

\* the instant an item is ordered by: that of its date, or epoch 0 when the
\* date is missing or cannot be parsed
OrderedAs(id) == IF ItemOf(id).date.t = "date" THEN ItemOf(id).date.n ELSE 0

\* C1: after a completed refresh cycle every item whose status is
\* no_valid_coordinate or coordinate_fetched is in exactly one of the groups
\* and the list of other items, once, and once in the list of all items; the
\* list of all items (the cards of the "all" panel) holds exactly the other
\* items and the members of the groups, each as often as there.
C1_Partition ==
    \A c \in Cycles : pc[c] = "done" =>
        /\ \A a \in Objects(c) :
              a.status \in {"no_valid_coordinate", "coordinate_fetched"} =>
                  /\ Count(noCoordinateItems[c], a.id) + Count(Members(c), a.id) = 1
                  /\ Count(allFilteredItems[c], a.id) = 1
        /\ \A id \in Ids(allItems[c]) \cup Ids(allFilteredItems[c]) :
              Count(allFilteredItems[c], id)
                  = Count(noCoordinateItems[c], id) + Count(Members(c), id)
        /\ Len(allFilteredItems[c]) = Len(noCoordinateItems[c]) + Len(Members(c))
        /\ Len(finished) = 1 /\ Len(allFilteredItems[c]) > 0
              => Cards(tabAll) = allFilteredItems[c]

C1_Witness ==
    /\ pc[1] = "done"
    /\ Len(noCoordinateItems[1]) = 1
    /\ Len(groupedByCoordinate[1]) = 1
    /\ Len(groupedByCoordinate[1][1].items) = 1
    /\ Len(tabAll) = 2

\* C2: once fetchNews is over, every fetched item with status
\* no_valid_coordinate is in the list of other items and in no group; every
\* coordinate_fetched item with a valid coordinate is in exactly one group,
\* the one keyed by its numeric latitude and longitude, and not in the list
\* of other items; every coordinate_fetched item with an invalid coordinate
\* is in the list of other items.
C2_Routing ==
    \A c \in Cycles : Ended(c) =>
        \A a \in Objects(c) :
            /\ a.status = "no_valid_coordinate" =>
                  /\ a.id \in Ids(noCoordinateItems[c])
                  /\ GroupsOf(c, a) = {}
            /\ a.status = "coordinate_fetched" /\ ValidPlace(a) =>
                  /\ Cardinality(GroupsOf(c, a)) = 1
                  /\ \A g \in GroupsOf(c, a) :
                        /\ StrictEq(KeyLatLon(groupedByCoordinate[c][g].key).latitude,
                                    ItemLat(a))
                        /\ StrictEq(KeyLatLon(groupedByCoordinate[c][g].key).longitude,
                                    ItemLon(a))
                  /\ a.id \notin Ids(noCoordinateItems[c])
            /\ a.status = "coordinate_fetched" /\ ~ValidPlace(a) =>
                  a.id \in Ids(noCoordinateItems[c])

\* C3: no invocation of fetchNews is ended by an error.
C3_NeverThrows == \A c \in Cycles : pc[c] # "threw"

\* C4: no per-date callback rejects; the part after the join starts only when
\* all seven have settled; and the joined list holds exactly the items of the
\* dates whose callback succeeded, each once (none when all seven failed).
C4_FanOut ==
    \A c \in Cycles :
        /\ \A d \in Dates : task[c][d] # "rejected"
        /\ Ended(c) => \A d \in Dates : task[c][d] \in Settled
        /\ Ids(allItems[c]) =
              UNION {Ids(ItemIds(feed[d].items)) : d \in {e \in Dates : task[c][e] = "ok"}}
        /\ \A id \in Ids(allItems[c]) : Count(allItems[c], id) = 1

C4_Witness ==
    /\ pc[1] = "done"
    /\ \E d \in Dates : task[1][d] = "failed" /\ Len(feed[d].items) > 0
    /\ Len(allItems[1]) >= 3
    /\ allItems[1][1] > allItems[1][2]
    /\ Len(tabAll) = Len(allItems[1])

\* C5: the list of all items of a completed cycle is in descending order of
\* the date, a missing or unparsable date counting as epoch 0.
C5_AllDescending ==
    \A c \in Cycles : pc[c] = "done" =>
        \A i, j \in 1..Len(allFilteredItems[c]) :
            i < j => OrderedAs(allFilteredItems[c][i]) >= OrderedAs(allFilteredItems[c][j])

\* C6: the popup of every marker lists its items in descending order of the
\* date, a missing or unparsable date counting as epoch 0.
C6_PopupDescending ==
    \A c \in Cycles : pc[c] = "done" /\ Len(finished) = 1 =>
        \A f \in 1..Len(vectorSource) :
            \A i, j \in 1..Len(vectorSource[f].popupHtml) :
                i < j => OrderedAs(vectorSource[f].popupHtml[i])
                            >= OrderedAs(vectorSource[f].popupHtml[j])

\* C7: when two invocations overlapped and both have completed, the map
\* layer, the marker table and the two panels hold what the one that
\* completed last wrote, and nothing else.
C7_LastWriteWins ==
    (overlapped /\ Len(finished) = 2 /\ \A c \in 1..2 : pc[c] = "done") =>
        LET last == finished[2]
        IN /\ Len(vectorSource) = Len(groupedByCoordinate[last])
           /\ Len(markerMap) = Len(groupedByCoordinate[last])
           /\ Cards(NewsCards(tabOther)) = noCoordinateItems[last]
           /\ Cards(NewsCards(tabAll)) = allFilteredItems[last]

\* C8: an item whose status is neither coordinate_fetched nor
\* no_valid_coordinate (unknown, missing, anything else) is in no list, no
\* group, no popup and no panel, whatever its coordinate.
C8_Excluded ==
    \A c \in Cycles : \A a \in Objects(c) :
        a.status \notin {"no_valid_coordinate", "coordinate_fetched"} =>
            /\ a.id \notin Ids(noCoordinateItems[c])
            /\ GroupsOf(c, a) = {}
            /\ a.id \notin Ids(allFilteredItems[c])
            /\ \A i \in 1..Len(tabOther) : tabOther[i].item # a.id
            /\ \A i \in 1..Len(tabAll) : tabAll[i].item # a.id
            /\ \A f \in 1..Len(vectorSource) :
                  \A i \in 1..Len(vectorSource[f].popupHtml) :
                      vectorSource[f].popupHtml[i] # a.id

C8_Witness ==
    /\ pc[1] = "done"
    /\ Len(allItems[1]) = 2
    /\ \E i \in 1..2 :
          /\ ItemOf(allItems[1][i]).status = "unknown"
          /\ ValidPlace(ItemOf(allItems[1][i]))
    /\ Len(vectorSource) = 1

\* C9: after a completed single cycle, two items at the same numeric place
\* are in the same group, and the map layer and the marker table each hold,
\* for every coordinate_fetched item with a valid coordinate, exactly one
\* marker at its numeric latitude and longitude, and no other marker.
Grouped(c) == {a \in Objects(c) : a.status = "coordinate_fetched" /\ ValidPlace(a)}

At(m, a) == StrictEq(m.latitude, ItemLat(a)) /\ StrictEq(m.longitude, ItemLon(a))

C9_OneMarkerPerPlace ==
    \A c \in Cycles : pc[c] = "done" /\ Len(finished) = 1 =>
        /\ \A a, b \in Grouped(c) : SamePlace(a, b) => GroupsOf(c, a) = GroupsOf(c, b)
        /\ \A a \in Grouped(c) :
              /\ Cardinality({f \in 1..Len(vectorSource) : At(vectorSource[f], a)}) = 1
              /\ Cardinality({m \in 1..Len(markerMap) : At(markerMap[m], a)}) = 1
              /\ \A m \in 1..Len(markerMap) :
                    At(markerMap[m], a) => markerMap[m].key = CoordinateKey(a.coordinate)
        /\ \A f \in 1..Len(vectorSource) : \E a \in Grouped(c) : At(vectorSource[f], a)
        /\ \A m \in 1..Len(markerMap) : \E a \in Grouped(c) : At(markerMap[m], a)

C9_Witness ==
    /\ pc[1] = "done"
    /\ Len(vectorSource) = 2
    /\ \E i, j \in 1..Len(allItems[1]) :
          /\ i < j
          /\ allItems[1][i] > allItems[1][j]
          /\ ItemOf(allItems[1][i]).coordinate # ItemOf(allItems[1][j]).coordinate
          /\ ItemOf(allItems[1][i]) \in Grouped(1)
          /\ ItemOf(allItems[1][j]) \in Grouped(1)
          /\ SamePlace(ItemOf(allItems[1][i]), ItemOf(allItems[1][j]))

\* C10: at most one hide timer is pending, and it is the one popupHideTimer
\* holds; after an openPopup no timer is pending and the popup is displayed
\* until the next closePopup; the popup is hidden only when the last of the
\* two operations was a closePopup.
C10_HideTimer ==
    /\ Cardinality(timers) <= 1
    /\ timers \subseteq {popupHideTimer}
    /\ lastPopupOp = "open" => timers = {} /\ popupDisplay = "block"
    /\ popupDisplay = "none" => lastPopupOp = "close"

C10_Witness ==
    /\ lastPopupOp = "open"
    /\ nextTimerId = 3
    /\ popupDisplay = "block"
    /\ popupVisible

====
